---- MODULE Spec2Model ----
(***************************************************************************)
(* Crisis Compass (src/CrisisCompass.py): the text normalizer, the two     *)
(* filter functions, and the navigation of the PyQt windows.               *)
(*                                                                         *)
(* Probabilities are integers in hundredths (0.1 is 10, 1.0 is 100).       *)
(* A DataFrame is the sequence of its rows in row order; a row carries the *)
(* index label pandas keeps through boolean indexing (idx), its Country    *)
(* and the Topic_Distribution column (NoColumn while the column does not   *)
(* exist).  Text is a sequence of one-character strings.                   *)
(***************************************************************************)
EXTENDS Integers, Sequences, FiniteSets, TLC

VARIABLES pc, df, lda, vectorizer, fits, initial_screen, clicks, closes,
          windows, call, text, cleaned

vars == <<pc, df, lda, vectorizer, fits, initial_screen, clicks, closes,
          windows, call, text, cleaned>>

----------------------------------------------------------------------------
(* Bounds of the model *)

(* rows of a table the filters are called on *)
MaxRecords == 3
(* topics of the fitted model (n_topics; main fits 7) *)
NumTopics == 2
(* pieces an input text of clean_text is put together from *)
MaxPieces == 3

Countries == {"India", "France"}
AbsentCountry == "Mars"

(* Probability (hundredths) a fitted model gives to each topic that is not *)
(* the dominant topic of a document: exactly the threshold, or just over.  *)
OffMass == {10, 11}

----------------------------------------------------------------------------
(* Values *)

Threshold == 10
NoColumn == -1
NoTopic == -1
NoCountry == "None"
NotFitted == [fit |-> 0, doc_topic |-> <<>>]
NoCall == [op |-> "none", df_in |-> <<>>, topic |-> NoTopic,
           country |-> NoCountry, dist |-> <<>>, result |-> <<>>]

Topics == 0 .. (NumTopics - 1)

Range(s) == {s[i] : i \in 1 .. Len(s)}

(* The row of a document whose dominant topic is d and whose other topics  *)
(* each get v: the row sums to 100.                                        *)
Row(d, v) == [t \in Topics |-> IF t = d THEN 100 - (NumTopics - 1) * v ELSE v]

Rows == {Row(d, v) : d \in Topics, v \in OffMass}

(* The tables load_data can return: n rows, index labels 0 .. n-1.         *)
Tables(n) == {[i \in 1 .. n |-> [idx |-> i - 1, Country |-> cs[i],
                                  Topic_Distribution |-> NoColumn]] :
              cs \in [1 .. n -> Countries]}

----------------------------------------------------------------------------
(* filter_by_topic, filter_by_country *)

(* line 48: the column assignment on the caller's DataFrame *)
assign_topic_column(d, selected_topic, topic_distributions) ==
    [i \in 1 .. Len(d) |->
        [d[i] EXCEPT !.Topic_Distribution = topic_distributions[i][selected_topic]]]

(* the comparison written >= *)
above_threshold_ge(r) == r.Topic_Distribution >= Threshold

above_threshold(r) == r.Topic_Distribution > Threshold

(* lines 49-50: the rows of the (now extended) DataFrame over the threshold *)
filter_by_topic(d, selected_topic, topic_distributions) ==
    SelectSeq(assign_topic_column(d, selected_topic, topic_distributions),
              above_threshold)

(* the comparison written != *)
filter_by_country_neq(d, selected_country) ==
    SelectSeq(d, LAMBDA r : r.Country # selected_country)

filter_by_country(d, selected_country) ==
    SelectSeq(d, LAMBDA r : r.Country = selected_country)

(* Series.unique(): the distinct values in order of first appearance *)
RECURSIVE unique(_)
unique(s) ==
    IF s = <<>> THEN <<>>
    ELSE LET rest == unique(SubSeq(s, 1, Len(s) - 1))
             last == s[Len(s)]
         IN IF last \in Range(rest) THEN rest ELSE Append(rest, last)

country_column(d) == [i \in 1 .. Len(d) |-> d[i].Country]

----------------------------------------------------------------------------
(* main: load, fit, start the application *)

AllTopicNames ==
    << "Economic Conflicts and Leadership",
       "Education and Establishment in the Roman Empire",
       "Presidential Influence in WWII and Global Affairs",
       "The Transition from British Rule to Independence",
       "Monarchies, Societal Dynamics, and Muslim-Jewish Relations",
       "The British Parliament's Global Initiatives",
       "Cultural Loss and Historical Significance" >>

(* one label per topic of the fitted model *)
topic_names == [i \in 1 .. NumTopics |-> AllTopicNames[((i - 1) % 7) + 1]]

(* TfidfVectorizer(max_df=0.9, min_df=2): with n documents the upper       *)
(* document count 0.9 n must not be below the lower count 2.               *)
df_bounds_ok(n) == 9 * n >= 2 * 10

(* the fewest documents the vectorizer can be fitted on *)
MinRows == CHOOSE n \in 1 .. 10 :
              df_bounds_ok(n) /\ \A k \in 1 .. (n - 1) : ~df_bounds_ok(k)

(* The corpora of a session.  The program compares countries for equality  *)
(* only and treats topic indices as opaque, so a session is explored up to *)
(* the renaming of countries and topics: the first row is in India and its *)
(* dominant topic is topic 0.  The tables have up to MinRows rows.         *)
SessionTables(n) == {t \in Tables(n) : t[1].Country = "India"}

SessionMatrices(n) ==
    {m \in [1 .. n -> Rows] : \E v \in OffMass : m[1] = Row(0, v)}

(* lines 340-344: the table is read and its text column normalized; the    *)
(* rows, their order and their Country are as read.                        *)
load_data ==
    /\ pc = "load"
    /\ \E n \in 1 .. MinRows : df' \in SessionTables(n)
    /\ pc' = "train"
    /\ UNCHANGED <<lda, vectorizer, fits, initial_screen, clicks, closes,
                   windows, call, text, cleaned>>

(* lines 36-44, 347: one fit of the vectorizer and of the model.  The      *)
(* fitted model is the document-topic matrix it gives the corpus.          *)
train_lda_model ==
    /\ pc = "train"
    /\ df_bounds_ok(Len(df))
    /\ \E m \in SessionMatrices(Len(df)) :
          lda' = [fit |-> fits + 1, doc_topic |-> m]
    /\ vectorizer' = [fit |-> fits + 1, doc_topic |-> <<>>]
    /\ fits' = fits + 1
    /\ pc' = "app"
    /\ UNCHANGED <<df, initial_screen, clicks, closes, windows, call, text,
                   cleaned>>

(* fit_transform raises (document-frequency bounds, empty vocabulary):     *)
(* main ends with the exception, no window is ever shown.                  *)
train_lda_model_raises ==
    /\ pc = "train"
    /\ pc' = "raised"
    /\ UNCHANGED <<df, lda, vectorizer, fits, initial_screen, clicks, closes,
                   windows, call, text, cleaned>>

(* lines 361, 370-374 *)
start_app ==
    /\ pc = "app"
    /\ initial_screen' = "shown"
    /\ pc' = "exec"
    /\ UNCHANGED <<df, lda, vectorizer, fits, clicks, closes, windows, call,
                   text, cleaned>>

----------------------------------------------------------------------------
(* InitialScreen *)

(* lines 97 and 100: the slots connected to continue_button.clicked *)
continue_clicked_slots == << "on_continue", "on_continue" >>

----------------------------------------------------------------------------
(* CrisisCompass (the main window) *)

NoScreen == [title |-> "", topics |-> <<>>, countries |-> <<>>,
             events |-> <<>>, label |-> ""]

display_topics(w) ==
    [w EXCEPT !.screen =
        [NoScreen EXCEPT !.title = "Select a Topic:",
                         !.topics = [i \in 1 .. Len(w.topic_names) |-> i - 1]]]

(* the country buttons taken from the whole table *)
display_countries_all(w) ==
    [w EXCEPT !.screen =
        [NoScreen EXCEPT !.title = "Select a Country:",
                         !.countries = unique(country_column(df))]]

display_countries(w) ==
    [w EXCEPT !.screen =
        [NoScreen EXCEPT !.title = "Select a Country:",
                         !.countries = unique(country_column(w.df_filtered_by_topic))]]

display_events(w) ==
    [w EXCEPT !.screen =
        IF w.df_filtered_by_country = <<>>
        THEN [NoScreen EXCEPT !.title = "Recommended Events:",
                              !.label = "No events available for the selected country."]
        ELSE [NoScreen EXCEPT !.title = "Recommended Events:",
                              !.events = w.df_filtered_by_country]]

(* __init__; df_filtered_by_topic and df_filtered_by_country do not exist  *)
(* yet, and are not read before select_topic / select_country set them.    *)
CrisisCompass(l, v, names) ==
    display_topics([lda |-> l, vectorizer |-> v, topic_names |-> names,
                    selected_topic_index |-> NoTopic,
                    selected_country |-> NoCountry,
                    df_filtered_by_topic |-> <<>>,
                    df_filtered_by_country |-> <<>>,
                    screen |-> NoScreen])

(* one run of show_main_window: a window is built and shown, the initial   *)
(* screen is closed.                                                       *)
show_main_window(g) ==
    [windows |-> Append(g.windows, CrisisCompass(lda, vectorizer, topic_names)),
     closes |-> g.closes + 1,
     initial_screen |-> "closed"]

RECURSIVE emit(_, _)
emit(slots, g) ==
    IF slots = <<>> THEN g
    ELSE emit(Tail(slots), show_main_window(g))

(* one click on "Click to continue": every connected slot runs *)
click_continue ==
    /\ pc = "exec"
    /\ initial_screen = "shown"
    /\ clicks' = clicks + 1
    /\ LET g == emit(continue_clicked_slots,
                     [windows |-> windows, closes |-> closes,
                      initial_screen |-> initial_screen])
       IN /\ windows' = g.windows
          /\ closes' = g.closes
          /\ initial_screen' = g.initial_screen
    /\ UNCHANGED <<pc, df, lda, vectorizer, fits, call, text, cleaned>>

(* vectorizer.transform then lda.transform on the corpus the pair was      *)
(* fitted on: the fitted document-topic matrix, row i for document i.      *)
transform(l, v, d) == [i \in 1 .. Len(d) |-> l.doc_topic[i]]

(* select_topic fitting the model again before it transforms *)
select_topic_refit(w, idx) ==
    /\ pc = "exec"
    /\ w \in 1 .. Len(windows)
    /\ idx \in Range(windows[w].screen.topics)
    /\ fits < 3
    /\ \E m \in [1 .. Len(df) -> Rows] :
          LET refitted == [fit |-> fits + 1, doc_topic |-> m]
              self == [windows[w] EXCEPT !.lda = refitted]
              topic_distributions == transform(self.lda, self.vectorizer, df)
          IN /\ lda' = refitted
             /\ df' = assign_topic_column(df, idx, topic_distributions)
             /\ windows' = [windows EXCEPT ![w] =
                   display_countries(
                     [self EXCEPT !.selected_topic_index = idx,
                                  !.df_filtered_by_topic =
                                      filter_by_topic(df, idx, topic_distributions)])]
    /\ fits' = fits + 1
    /\ UNCHANGED <<pc, vectorizer, initial_screen, clicks, closes, call, text,
                   cleaned>>

(* a click on the button of topic idx *)
select_topic(w, idx) ==
    /\ pc = "exec"
    /\ w \in 1 .. Len(windows)
    /\ idx \in Range(windows[w].screen.topics)
    /\ LET self == windows[w]
           topic_distributions == transform(self.lda, self.vectorizer, df)
       IN /\ df' = assign_topic_column(df, idx, topic_distributions)
          /\ windows' = [windows EXCEPT ![w] =
                display_countries(
                  [self EXCEPT !.selected_topic_index = idx,
                               !.df_filtered_by_topic =
                                   filter_by_topic(df, idx, topic_distributions)])]
    /\ UNCHANGED <<pc, lda, vectorizer, fits, initial_screen, clicks, closes,
                   call, text, cleaned>>

(* select_country filtering the whole table instead of the topic's rows *)
select_country_from_df(w, country) ==
    /\ pc = "exec"
    /\ w \in 1 .. Len(windows)
    /\ country \in Range(windows[w].screen.countries)
    /\ LET self == windows[w]
       IN windows' = [windows EXCEPT ![w] =
             display_events(
               [self EXCEPT !.selected_country = country,
                            !.df_filtered_by_country =
                                filter_by_country(df, country)])]
    /\ UNCHANGED <<pc, df, lda, vectorizer, fits, initial_screen, clicks,
                   closes, call, text, cleaned>>

(* a click on the button of a country *)
select_country(w, country) ==
    /\ pc = "exec"
    /\ w \in 1 .. Len(windows)
    /\ country \in Range(windows[w].screen.countries)
    /\ LET self == windows[w]
       IN windows' = [windows EXCEPT ![w] =
             display_events(
               [self EXCEPT !.selected_country = country,
                            !.df_filtered_by_country =
                                filter_by_country(self.df_filtered_by_topic, country)])]
    /\ UNCHANGED <<pc, df, lda, vectorizer, fits, initial_screen, clicks,
                   closes, call, text, cleaned>>

(* Back going to the topic screen from the events screen too *)
handle_back_to_top(w) ==
    /\ pc = "exec"
    /\ w \in 1 .. Len(windows)
    /\ LET self == windows[w]
       IN windows' = [windows EXCEPT ![w] =
             IF self.selected_country # NoCountry \/ self.selected_topic_index # NoTopic
             THEN display_topics([self EXCEPT !.selected_country = NoCountry,
                                              !.selected_topic_index = NoTopic])
             ELSE self]
    /\ UNCHANGED <<pc, df, lda, vectorizer, fits, initial_screen, clicks,
                   closes, call, text, cleaned>>

(* Back showing the topic screen without clearing the selected topic *)
handle_back_keep_topic(w) ==
    /\ pc = "exec"
    /\ w \in 1 .. Len(windows)
    /\ LET self == windows[w]
       IN windows' = [windows EXCEPT ![w] =
             IF self.selected_country # NoCountry
             THEN display_countries([self EXCEPT !.selected_country = NoCountry])
             ELSE IF self.selected_topic_index # NoTopic
                  THEN display_topics(self)
                  ELSE self]
    /\ UNCHANGED <<pc, df, lda, vectorizer, fits, initial_screen, clicks,
                   closes, call, text, cleaned>>

(* a click on Back *)
handle_back(w) ==
    /\ pc = "exec"
    /\ w \in 1 .. Len(windows)
    /\ LET self == windows[w]
       IN windows' = [windows EXCEPT ![w] =
             IF self.selected_country # NoCountry
             THEN display_countries([self EXCEPT !.selected_country = NoCountry])
             ELSE IF self.selected_topic_index # NoTopic
                  THEN display_topics([self EXCEPT !.selected_topic_index = NoTopic])
                  ELSE self]
    /\ UNCHANGED <<pc, df, lda, vectorizer, fits, initial_screen, clicks,
                   closes, call, text, cleaned>>

----------------------------------------------------------------------------
(* The session *)

Init ==
    /\ pc = "load"
    /\ df = <<>>
    /\ lda = NotFitted
    /\ vectorizer = NotFitted
    /\ fits = 0
    /\ initial_screen = "none"
    /\ clicks = 0
    /\ closes = 0
    /\ windows = <<>>
    /\ call = NoCall
    /\ text = <<>>
    /\ cleaned = <<>>

Next ==
    \/ load_data
    \/ train_lda_model
    \/ train_lda_model_raises
    \/ start_app
    \/ click_continue
    \/ \E w \in 1 .. 2, idx \in Topics : select_topic(w, idx)
    \/ \E w \in 1 .. 2, country \in Countries : select_country(w, country)
    \/ \E w \in 1 .. 2 : handle_back(w)

Spec == Init /\ [][Next]_vars

----------------------------------------------------------------------------
(* preprocess_text.clean_text *)

UpperCase == << "A", "B", "C", "D", "E", "F", "G", "H", "I", "J", "K", "L", "M",
                "N", "O", "P", "Q", "R", "S", "T", "U", "V", "W", "X", "Y", "Z" >>
LowerCase == << "a", "b", "c", "d", "e", "f", "g", "h", "i", "j", "k", "l", "m",
                "n", "o", "p", "q", "r", "s", "t", "u", "v", "w", "x", "y", "z" >>
Digits == {"0", "1", "2", "3", "4", "5", "6", "7", "8", "9"}

(* str.lower() *)
lower_char(c) ==
    IF \E i \in 1 .. 26 : UpperCase[i] = c
    THEN LowerCase[CHOOSE i \in 1 .. 26 : UpperCase[i] = c]
    ELSE c

lower(s) == [i \in 1 .. Len(s) |-> lower_char(s[i])]

(* \w of the re module: letters, digits and the underscore *)
is_word_char(c) == c \in Range(LowerCase) \cup Range(UpperCase) \cup Digits \cup {"_"}

RECURSIVE drop_while_nonword(_)
drop_while_nonword(s) ==
    IF s = <<>> \/ is_word_char(Head(s)) THEN s
    ELSE drop_while_nonword(Tail(s))

(* re.sub(r'\W+', ' ', s): every maximal run of non-word characters        *)
(* becomes one space                                                       *)
RECURSIVE sub_nonword_runs(_)
sub_nonword_runs(s) ==
    IF s = <<>> THEN <<>>
    ELSE IF is_word_char(Head(s))
         THEN <<Head(s)>> \o sub_nonword_runs(Tail(s))
         ELSE <<" ">> \o sub_nonword_runs(drop_while_nonword(Tail(s)))

(* str.split(): the maximal runs of non-space characters.  cur is the      *)
(* token being read.                                                       *)
RECURSIVE split_from(_, _)
split_from(s, cur) ==
    IF s = <<>> THEN (IF cur = <<>> THEN <<>> ELSE <<cur>>)
    ELSE IF Head(s) = " "
         THEN (IF cur = <<>> THEN <<>> ELSE <<cur>>) \o split_from(Tail(s), <<>>)
         ELSE split_from(Tail(s), Append(cur, Head(s)))

split(s) == split_from(s, <<>>)

(* ' '.join(tokens) *)
RECURSIVE join(_)
join(tokens) ==
    IF tokens = <<>> THEN <<>>
    ELSE IF Len(tokens) = 1 THEN tokens[1]
         ELSE tokens[1] \o <<" ">> \o join(Tail(tokens))

(* stopwords.words('english'), the entries the inputs below can produce *)
stop_words == { <<"t", "h", "e">>, <<"c", "a", "n">>, <<"a", "n", "d">>,
                <<"o", "f">>, <<"a">>, <<"w", "a", "s">> }

(* WordNet, the noun lemmas and the irregular plurals the inputs below can *)
(* produce                                                                 *)
wordnet_lemmas == { <<"w", "a", "r">>, <<"o", "x">>, <<"c", "a", "n">> }
wordnet_exceptions == { << <<"o", "x", "e", "n">>, <<"o", "x">> >> }

(* WordNetLemmatizer.lemmatize(word) with the default part of speech       *)
(* (noun): an irregular form gives its lemma, a lemma gives itself, a      *)
(* regular plural gives its singular if that is a lemma, and a word the    *)
(* dictionary does not know comes back unchanged.                          *)
lemmatize(word) ==
    IF \E e \in wordnet_exceptions : e[1] = word
    THEN (CHOOSE e \in wordnet_exceptions : e[1] = word)[2]
    ELSE IF word \in wordnet_lemmas THEN word
    ELSE IF /\ Len(word) > 1
            /\ word[Len(word)] = "s"
            /\ SubSeq(word, 1, Len(word) - 1) \in wordnet_lemmas
         THEN SubSeq(word, 1, Len(word) - 1)
         ELSE word

(* the condition without the stop-word test *)
keep_word_no_stop(word) == Len(word) > 2

(* line 29, the condition of the comprehension *)
keep_word(word) == word \notin stop_words /\ Len(word) > 2

clean_text(s) ==
    LET tokens == split(sub_nonword_runs(lower(s)))
        kept == SelectSeq(tokens, keep_word)
    IN join([i \in 1 .. Len(kept) |-> lemmatize(kept[i])])

(* The inputs: texts put together from at most MaxPieces pieces *)
Pieces == { <<"O", "x", "e", "n">>, <<"c", "a", "n", "s">>, <<"T", "h", "e">>,
            <<"W", "a", "r", "s">>, <<"w", "a", "r">>, <<"a", "_", "b">>,
            <<"o", "f">>, <<" ">>, <<",", " ">>, <<"!">> }

RECURSIVE concat(_)
concat(ps) == IF ps = <<>> THEN <<>> ELSE Head(ps) \o concat(Tail(ps))

Texts == {concat(ps) : ps \in UNION {[1 .. n -> Pieces] : n \in 0 .. MaxPieces}}

InitText ==
    /\ pc = "text"
    /\ text \in Texts
    /\ cleaned = <<>>
    /\ df = <<>>
    /\ lda = NotFitted
    /\ vectorizer = NotFitted
    /\ fits = 0
    /\ initial_screen = "none"
    /\ clicks = 0
    /\ closes = 0
    /\ windows = <<>>
    /\ call = NoCall

(* df['Impact'].apply(clean_text), one element *)
apply_clean_text ==
    /\ pc = "text"
    /\ cleaned' = clean_text(text)
    /\ pc' = "cleaned"
    /\ UNCHANGED <<df, lda, vectorizer, fits, initial_screen, clicks, closes,
                   windows, call, text>>

NextText == apply_clean_text

SpecText == InitText /\ [][NextText]_vars

----------------------------------------------------------------------------
(* The two filters, called on any table and any aligned distribution       *)
(* matrix                                                                  *)

InitFilter ==
    /\ pc = "filter"
    /\ \E n \in 0 .. MaxRecords :
          /\ df \in Tables(n)
          /\ \E m \in [1 .. n -> Rows] : call = [NoCall EXCEPT !.dist = m]
    /\ lda = NotFitted
    /\ vectorizer = NotFitted
    /\ fits = 0
    /\ initial_screen = "none"
    /\ clicks = 0
    /\ closes = 0
    /\ windows = <<>>
    /\ text = <<>>
    /\ cleaned = <<>>

call_filter_by_topic(t) ==
    /\ pc = "filter"
    /\ call' = [call EXCEPT !.op = "filter_by_topic", !.df_in = df,
                            !.topic = t, !.country = NoCountry,
                            !.result = filter_by_topic(df, t, call.dist)]
    /\ df' = assign_topic_column(df, t, call.dist)
    /\ UNCHANGED <<pc, lda, vectorizer, fits, initial_screen, clicks, closes,
                   windows, text, cleaned>>

call_filter_by_country(c) ==
    /\ pc = "filter"
    /\ call' = [call EXCEPT !.op = "filter_by_country", !.df_in = df,
                            !.topic = NoTopic, !.country = c,
                            !.result = filter_by_country(df, c)]
    /\ UNCHANGED <<pc, df, lda, vectorizer, fits, initial_screen, clicks,
                   closes, windows, text, cleaned>>

NextFilter ==
    \/ \E t \in Topics : call_filter_by_topic(t)
    \/ \E c \in Countries \cup {AbsentCountry} : call_filter_by_country(c)

SpecFilter == InitFilter /\ [][NextFilter]_vars

----------------------------------------------------------------------------
(* Properties *)

(* positions 1 .. n, in order *)
Positions(n) == [i \in 1 .. n |-> i]

Labels(rows) == [j \in 1 .. Len(rows) |-> rows[j].idx]

StrictlyIncreasing(s) == \A j, k \in 1 .. Len(s) : j < k => s[j] < s[k]

(* C1: a call of filter_by_topic(df, t, dist) returns exactly the rows i   *)
(* of df with dist[i][t] > 0.1 (a row at exactly 0.1 is left out), each    *)
(* with its own Country, in their original relative order; and the same    *)
(* call made again after it returns gives the same rows.                   *)
C1_FilterByTopicExact ==
    call.op = "filter_by_topic" =>
        LET d == call.df_in
            r == call.result
            t == call.topic
            m == call.dist
        IN /\ \A i \in 1 .. Len(d) :
                 (m[i][t] > 10) <=> (\E j \in 1 .. Len(r) : r[j].idx = d[i].idx)
           /\ \A j \in 1 .. Len(r) :
                 \E i \in 1 .. Len(d) : /\ r[j].idx = d[i].idx
                                        /\ r[j].Country = d[i].Country
           /\ StrictlyIncreasing(Labels(r))
           /\ filter_by_topic(df, t, m) = r

C1_Witness ==
    /\ call.op = "filter_by_topic"
    /\ Len(call.result) = 2
    /\ Len(call.df_in) = 3
    /\ \E i \in 1 .. 3 : /\ call.dist[i][call.topic] = 10
                         /\ i < 3
                         /\ call.dist[i + 1][call.topic] = 11

(* C2: a call of filter_by_country(df, c) returns exactly the rows of df   *)
(* whose Country is c, unchanged and in their original relative order; it  *)
(* returns the empty table when no row of df has Country c.                *)
C2_FilterByCountryExact ==
    call.op = "filter_by_country" =>
        LET d == call.df_in
            r == call.result
            c == call.country
        IN /\ \A i \in 1 .. Len(d) :
                 (d[i].Country = c) <=> (\E j \in 1 .. Len(r) : r[j] = d[i])
           /\ \A j \in 1 .. Len(r) : \E i \in 1 .. Len(d) : r[j] = d[i]
           /\ StrictlyIncreasing(Labels(r))
           /\ ((\A i \in 1 .. Len(d) : d[i].Country # c) => r = <<>>)

C2_Witness ==
    /\ call.op = "filter_by_country"
    /\ call.country = "India"
    /\ Len(call.df_in) = 3
    /\ call.df_in[2].Country = "France"
    /\ Labels(call.result) = <<0, 2>>

C2_WitnessAbsent ==
    /\ call.op = "filter_by_country"
    /\ call.country = AbsentCountry
    /\ Len(call.df_in) = 3
    /\ call.result = <<>>

(* C3: after a call of filter_by_topic or filter_by_country the table      *)
(* passed in is as it was before the call.                                 *)
C3_FiltersDoNotMutate ==
    call.op # "none" => df = call.df_in

(* C4: the model is fitted once, before the first click; from the first    *)
(* click on, the fitted model and its vectorizer are never fitted again,   *)
(* replaced or changed, and every window uses the pair of that one fit.    *)
C4_FitOnce ==
    [][ /\ fits' <= 1
        /\ (clicks' > 0 => fits' = 1 /\ lda'.fit = 1 /\ vectorizer'.fit = 1)
        /\ (clicks > 0 => lda' = lda /\ vectorizer' = vectorizer /\ fits' = fits)
        /\ \A w \in 1 .. Len(windows') :
              /\ windows'[w].lda = lda'
              /\ windows'[w].vectorizer = vectorizer' ]_vars

C4_Witness ==
    /\ fits = 1
    /\ Len(windows) = 2
    /\ windows[1].selected_topic_index = 1
    /\ windows[1].selected_country # NoCountry
    /\ windows[2].selected_topic_index = 0
    /\ windows[2].df_filtered_by_country # <<>>

(* what the output of clean_text is made of *)
IsLowerAlnum(c) == c \in Range(LowerCase) \cup Digits

SingleSpaced(s) ==
    /\ s # <<>> => s[1] # " " /\ s[Len(s)] # " "
    /\ \A i \in 1 .. Len(s) - 1 : ~(s[i] = " " /\ s[i + 1] = " ")

(* the tokens of the input that line 29 passes to the lemmatizer *)
SurvivingTokens(s) ==
    SelectSeq(split(sub_nonword_runs(lower(s))),
              LAMBDA word : Len(word) > 2 /\ word \notin stop_words)

(* C5, as claimed: the output of clean_text has only lower-case            *)
(* alphanumeric tokens separated by single spaces, none of length <= 2,    *)
(* none a stop word (the tokens as they are after lemmatization), and an   *)
(* empty or all-stop-word input gives the empty string.                    *)
C5_AsClaimed ==
    pc = "cleaned" =>
        /\ \A i \in 1 .. Len(cleaned) : IsLowerAlnum(cleaned[i]) \/ cleaned[i] = " "
        /\ SingleSpaced(cleaned)
        /\ \A j \in 1 .. Len(split(cleaned)) :
              /\ Len(split(cleaned)[j]) > 2
              /\ split(cleaned)[j] \notin stop_words
        /\ (SurvivingTokens(text) = <<>> => cleaned = <<>>)

(* C5, amended: the output of clean_text is made of lower-case letters,    *)
(* digits, underscores and single spaces between tokens; its tokens are,   *)
(* in order, the lemmas of the input's lower-cased word-character tokens   *)
(* that have length > 2 and are not stop words (the lemma itself may be    *)
(* shorter or a stop word); an input with no such token gives the empty    *)
(* string.                                                                 *)
C5_Amended ==
    pc = "cleaned" =>
        /\ \A i \in 1 .. Len(cleaned) :
              IsLowerAlnum(cleaned[i]) \/ cleaned[i] = "_" \/ cleaned[i] = " "
        /\ SingleSpaced(cleaned)
        /\ LET out == split(cleaned)
               src == SurvivingTokens(text)
           IN /\ Len(out) = Len(src)
              /\ \A j \in 1 .. Len(src) : out[j] = lemmatize(src[j])
        /\ (SurvivingTokens(text) = <<>> => cleaned = <<>>)

C5_Witness ==
    /\ pc = "cleaned"
    /\ text # lower(text)
    /\ Len(sub_nonword_runs(text)) < Len(text)
    /\ split(cleaned) = << <<"o", "x">>, <<"c", "a", "n">> >>

(* the rows a window should list for topic t and country c, by index label *)
ExpectedLabels(t, c) ==
    LET hit(i) == lda.doc_topic[i][t] > 10 /\ (c = NoCountry \/ df[i].Country = c)
        pos == SelectSeq(Positions(Len(df)), hit)
    IN [j \in 1 .. Len(pos) |-> df[pos[j]].idx]

ExpectedCountries(t) ==
    LET hit(i) == lda.doc_topic[i][t] > 10
        pos == SelectSeq(Positions(Len(df)), hit)
    IN unique([j \in 1 .. Len(pos) |-> df[pos[j]].Country])

OnTopics(a) == a.screen.title = "Select a Topic:"
OnCountries(a) == a.screen.title = "Select a Country:"
OnEvents(a) == a.screen.title = "Recommended Events:"

(* C6: Back pops one level.  On the events screen it shows the country     *)
(* screen of the topic that stays selected and clears the country only; on *)
(* the country screen it shows the topic screen and clears the topic; on   *)
(* the topic screen it changes nothing.                                    *)
C6_BackPopsOne ==
    [][ \A w \in 1 .. Len(windows) :
          handle_back(w) =>
            LET a == windows[w]
                b == windows'[w]
            IN /\ OnEvents(a) =>
                    /\ OnCountries(b)
                    /\ b.selected_topic_index = a.selected_topic_index
                    /\ b.selected_topic_index # NoTopic
                    /\ b.selected_country = NoCountry
                    /\ b.screen.countries = ExpectedCountries(a.selected_topic_index)
               /\ OnCountries(a) =>
                    /\ OnTopics(b)
                    /\ b.selected_topic_index = NoTopic
                    /\ b.selected_country = NoCountry
                    /\ b.screen.topics = [i \in 1 .. NumTopics |-> i - 1]
               /\ OnTopics(a) => b = a
               /\ \A o \in 1 .. Len(windows) : o # w => windows'[o] = windows[o]
               /\ Len(windows') = Len(windows) ]_vars

C6_Witness ==
    /\ Len(windows) = 2
    /\ OnCountries(windows[1])
    /\ windows[1].df_filtered_by_country # <<>>
    /\ windows[1].selected_country = NoCountry
    /\ OnTopics(windows[2])
    /\ windows[2].df_filtered_by_topic # <<>>

C8_EventsMatchSelection ==
    \A w \in 1 .. Len(windows) :
        LET a == windows[w]
        IN OnEvents(a) =>
              /\ a.selected_topic_index # NoTopic
              /\ a.selected_country # NoCountry
              /\ Labels(a.screen.events) =
                     ExpectedLabels(a.selected_topic_index, a.selected_country)
              /\ \A j \in 1 .. Len(a.screen.events) :
                     a.screen.events[j].Country = a.selected_country

(* an events screen reached after Back to the topic screen and another     *)
(* topic: the table kept from the earlier country differs from the list    *)
C8_Witness ==
    /\ Len(windows) = 2
    /\ OnEvents(windows[1])
    /\ windows[1].selected_topic_index = 1
    /\ Len(windows[1].screen.events) = 2
    /\ Len(ExpectedLabels(0, windows[1].selected_country)) = 1
    /\ OnEvents(windows[2])
    /\ windows[2].selected_topic_index = 0
    /\ windows[2].selected_country # windows[1].selected_country

(* C9: in every window the screen shown agrees with the selection: topic   *)
(* screen iff no topic is selected (and then no country is), country       *)
(* screen iff a topic and no country is selected, events screen iff both   *)
(* are selected.                                                           *)
C9_ScreenAgreesWithSelection ==
    \A w \in 1 .. Len(windows) :
        LET a == windows[w]
        IN /\ OnTopics(a) \/ OnCountries(a) \/ OnEvents(a)
           /\ OnTopics(a) <=> a.selected_topic_index = NoTopic
           /\ a.selected_topic_index = NoTopic => a.selected_country = NoCountry
           /\ OnCountries(a) <=>
                 (a.selected_topic_index # NoTopic /\ a.selected_country = NoCountry)
           /\ OnEvents(a) <=>
                 (a.selected_topic_index # NoTopic /\ a.selected_country # NoCountry)

C9_Witness ==
    /\ Len(windows) = 2
    /\ OnTopics(windows[1])
    /\ windows[1].df_filtered_by_country # <<>>
    /\ OnEvents(windows[2])

(* C10: one click on "Click to continue" runs the handler once: one main   *)
(* window is built and the initial screen is closed once per click.        *)
C10_OneWindowPerClick ==
    /\ Len(windows) = clicks
    /\ closes = clicks

====
